---- MODULE Spec2Model ----
(***************************************************************************)
(* Model of the Piano component (polyphonic tone generator with a shared   *)
(* effect chain).  The React component is modelled as a state machine:     *)
(* the hook state (useState / useRef), the memoised callbacks with the     *)
(* values they captured, the Web Audio nodes the component created, and    *)
(* the timers it has scheduled.  Every event handler is one action; the    *)
(* re-render that follows a handler is part of the action.                 *)
(***************************************************************************)
EXTENDS Integers, Sequences, FiniteSets, TLC

(***************************************************************************)
(* Bounds of the model.                                                    *)
(***************************************************************************)
\* oscillators created in one run
MaxOsc == 3
\* release timers pending at the same time
MaxTimers == 2
\* calls of the control surface (waveform, transpose, sliders) in one run
MaxParamChanges == 1

Null == "null"

(***************************************************************************)
(* Pitch Table.  Frequencies are in units of 0.005 Hz (261.63 Hz = 52326), *)
(* so that an octave down is still an integer.                             *)
(***************************************************************************)
PIANO_KEYS ==
  << [key |-> "z", note |-> "C4",  frequency |-> 52326,  isBlackKey |-> FALSE],
     [key |-> "s", note |-> "C#4", frequency |-> 55436,  isBlackKey |-> TRUE],
     [key |-> "x", note |-> "D4",  frequency |-> 58732,  isBlackKey |-> FALSE],
     [key |-> "d", note |-> "D#4", frequency |-> 62226,  isBlackKey |-> TRUE],
     [key |-> "c", note |-> "E4",  frequency |-> 65926,  isBlackKey |-> FALSE],
     [key |-> "v", note |-> "F4",  frequency |-> 69846,  isBlackKey |-> FALSE],
     [key |-> "g", note |-> "F#4", frequency |-> 73998,  isBlackKey |-> TRUE],
     [key |-> "b", note |-> "G4",  frequency |-> 78400,  isBlackKey |-> FALSE],
     [key |-> "h", note |-> "G#4", frequency |-> 83060,  isBlackKey |-> TRUE],
     [key |-> "n", note |-> "A4",  frequency |-> 88000,  isBlackKey |-> FALSE],
     [key |-> "j", note |-> "A#4", frequency |-> 93232,  isBlackKey |-> TRUE],
     [key |-> "m", note |-> "B4",  frequency |-> 98776,  isBlackKey |-> FALSE],
     [key |-> ",", note |-> "C5",  frequency |-> 104650, isBlackKey |-> FALSE],
     [key |-> "l", note |-> "C#5", frequency |-> 110874, isBlackKey |-> TRUE],
     [key |-> ".", note |-> "D5",  frequency |-> 117466, isBlackKey |-> FALSE],
     [key |-> ";", note |-> "D#5", frequency |-> 124450, isBlackKey |-> TRUE],
     [key |-> "/", note |-> "E5",  frequency |-> 131850, isBlackKey |-> FALSE] >>

\* the symbols of the Pitch Table
TableKeys == { PIANO_KEYS[i].key : i \in 1..Len(PIANO_KEYS) }

\* the undefined that find returns when no entry matches
NoKey == [key |-> Null, note |-> Null, frequency |-> 0, isBlackKey |-> FALSE]

\* variant of Find: falls back to the first entry
FindOrFirst(key) ==
  LET hits == { i \in 1..Len(PIANO_KEYS) : PIANO_KEYS[i].key = key }
  IN  PIANO_KEYS[IF hits = {} THEN 1 ELSE CHOOSE i \in hits : \A j \in hits : i <= j]

\* PIANO_KEYS.find((k) => k.key === key): the first entry with that key, or
\* undefined
Find(key) ==
  LET hits == { i \in 1..Len(PIANO_KEYS) : PIANO_KEYS[i].key = key }
  IN  IF hits = {} THEN NoKey
      ELSE PIANO_KEYS[CHOOSE i \in hits : \A j \in hits : i <= j]

\* String.prototype.toLowerCase on the key names the model feeds in
ToLowerCase(k) ==
  CASE k = "Z" -> "z"
    [] k = "S" -> "s"
    [] k = "X" -> "x"
    [] k = "Q" -> "q"
    [] OTHER   -> k

(***************************************************************************)
(* Inputs of the model.                                                    *)
(***************************************************************************)
\* event.key of the keyboard events: a table key, a shifted table key, and
\* a key that is not in the table
EventKeys == {"z", "S", "q"}
\* the key elements that receive pointer and touch events
PointerKeys == { k \in TableKeys : k \in {"z"} }
\* <option> values of the waveform selector
Waveforms == {"sine", "square", "sawtooth", "triangle"}
WaveformInputs == Waveforms \cap {"square"}
\* values of the transpose slider (min -12, max 12) the model feeds in
TransposeInputs == {12}
\* slider values in hundredths
DelayInputs == {60}
FeedbackInputs == {90}
ReverbInputs == {0, 100}
MasterInputs == {0}

VARIABLES
  mounted,          \* the mount effects have run
  audioContext,     \* useState: Null, "ctx" (mount effect), "newContext" (first press)
  activeKeys,       \* useState: Set<string>
  oscillators,      \* useState: reference to a map object of oscMaps
  gainNodes,        \* useState: reference to a map object of gainMaps
  oscMaps,          \* the heap of { [key]: OscillatorNode } objects
  gainMaps,         \* the heap of { [key]: GainNode } objects
  oscNodes,         \* the OscillatorNode objects created so far
  gainObjs,         \* the per-voice GainNode objects created so far
  delayNode, reverbNode, masterGainNode,         \* useState: effect nodes
  delayFeedbackNode, wetGainNode, dryGainNode,   \* useRef: effect nodes
  delayTime, delayFeedback, reverbLevel, masterVolume, transpose, waveform,
  audioParams,      \* AudioParam values of the effect chain's nodes
  graph,            \* connections of the effect chain
  playNoteEnv,      \* values the memoised playNote captured at its render
  timers,           \* pending release timers (setTimeout 100), in order
  deferred,         \* pending setTimeout(() => playNote(key), 0)
  paramChanges,     \* control-surface calls so far
  effectsDue,       \* an event was handled before the mount effect, which runs next
  renderDue,        \* the mount effects have run, their state updates are not rendered yet
  pressed,          \* history: key elements with an outstanding pointer/touch press
  keyHeld,          \* history: symbols whose keydown started a voice, no keyup since
  last              \* history: the last event handled

hookVars  == <<mounted, audioContext, activeKeys, oscillators, gainNodes>>
heapVars  == <<oscMaps, gainMaps, oscNodes, gainObjs>>
chainVars == <<delayNode, reverbNode, masterGainNode, delayFeedbackNode,
               wetGainNode, dryGainNode, audioParams, graph>>
ctrlVars  == <<delayTime, delayFeedback, reverbLevel, masterVolume, transpose,
               waveform>>
boundVars == <<paramChanges, effectsDue, renderDue>>
schedVars == <<timers, deferred>>
histVars  == <<pressed, keyHeld, last>>
vars == <<hookVars, heapVars, chainVars, ctrlVars, boundVars, schedVars,
         playNoteEnv, histVars>>


(***************************************************************************)
(* Program constants (gains in thousandths, slider values in hundredths).  *)
(***************************************************************************)
\* gainNode.gain.setValueAtTime(0.5, ...)
AttackGain == 500
\* gainNode.gain.exponentialRampToValueAtTime(0.001, ...)
ReleaseFloor == 1
InitDelayTime == 30
InitDelayFeedback == 30
InitReverbLevel == 30
InitMasterVolume == 70
InitTranspose == 0
WetGain == 30
DryGain == 70

\* variant of MapPut: the other entries are not copied
MapPutAlone(m, k, v) == [x \in {k} |-> v]

\* { ...m, [k]: v }
MapPut(m, k, v) == [x \in (DOMAIN m) \cup {k} |-> IF x = k THEN v ELSE m[x]]
\* delete m[k]
MapDelete(m, k) == [x \in (DOMAIN m) \ {k} |-> m[x]]
\* m[k] is not undefined
MapHas(m, k) == k \in DOMAIN m

\* variant of TransposedFreq: a negative transpose is not applied
TransposedFreqUpOnly(frequency, t) ==
  IF t >= 0 THEN frequency * 2^(t \div 12) ELSE frequency

\* key.frequency * Math.pow(2, transpose / 12), for whole octaves (the power
\* of two is exact in floating point)
TransposedFreq(frequency, t) ==
  IF t >= 0 THEN frequency * 2^(t \div 12) ELSE frequency \div 2^((0 - t) \div 12)

\* history: an event, the symbol it was for, and (for a pointer or touch
\* release) whether a press on that key was outstanding
Event(op, key, outstanding) == [op |-> op, key |-> key, outstanding |-> outstanding]

\* the closure of a playNote created by a render
PlayNoteClosure(w, t, d, r, m) ==
  [waveform |-> w, transpose |-> t, delayNode |-> d, reverbNode |-> r,
   masterGainNode |-> m]

Init ==
  /\ mounted = FALSE
  /\ audioContext = Null
  /\ activeKeys = {}
  /\ oscMaps = << <<>> >>
  /\ gainMaps = << <<>> >>
  /\ oscillators = 1
  /\ gainNodes = 1
  /\ oscNodes = <<>>
  /\ gainObjs = <<>>
  /\ delayNode = Null
  /\ reverbNode = Null
  /\ masterGainNode = Null
  /\ delayFeedbackNode = Null
  /\ wetGainNode = Null
  /\ dryGainNode = Null
  /\ delayTime = InitDelayTime
  /\ delayFeedback = InitDelayFeedback
  /\ reverbLevel = InitReverbLevel
  /\ masterVolume = InitMasterVolume
  /\ transpose = InitTranspose
  /\ waveform = "sine"
  /\ audioParams = [delayTime |-> Null, feedback |-> Null, wet |-> Null,
                    dry |-> Null, master |-> Null]
  /\ graph = {}
  /\ playNoteEnv = PlayNoteClosure("sine", InitTranspose, Null, Null, Null)
  /\ timers = <<>>
  /\ deferred = <<>>
  /\ paramChanges = 0
  /\ effectsDue = FALSE
  /\ renderDue = FALSE
  /\ pressed = {}
  /\ keyHeld = {}
  /\ last = Event("init", "", FALSE)

(***************************************************************************)
(* The re-render after a handler.  playNote is useCallback(..., [audio-    *)
(* Context, oscillators, stopNote]) and stopNote is useCallback(...,       *)
(* [audioContext, gainNodes, oscillators]): playNote is created anew, and  *)
(* captures the render's waveform, transpose, delayNode, reverbNode and    *)
(* masterGainNode, only when one of those three dependencies has changed.  *)
(***************************************************************************)
PlayNoteDepsChanged ==
  \/ audioContext' # audioContext
  \/ oscillators' # oscillators
  \/ gainNodes' # gainNodes

Render ==
  playNoteEnv' =
    IF PlayNoteDepsChanged
    THEN PlayNoteClosure(waveform', transpose', delayNode', reverbNode',
                         masterGainNode')
    ELSE playNoteEnv


(***************************************************************************)
(* stopNote(key), lines 317-348.  The callback reads the maps the state    *)
(* refers to at its render; the timer it schedules keeps the oscillator    *)
(* and those two map objects.                                              *)
(***************************************************************************)
\* const oscillator = oscillators[key]; const gainNode = gainNodes[key]
StopNoteOscillator(key) == oscMaps[oscillators][key]
StopNoteGainNode(key) == gainMaps[gainNodes][key]

\* variant of StopNoteSchedules: no release is ever scheduled
StopNoteSchedulesNever(key) == FALSE

\* if (oscillator && gainNode && audioContext)
StopNoteSchedules(key) ==
  /\ MapHas(oscMaps[oscillators], key)
  /\ MapHas(gainMaps[gainNodes], key)
  /\ audioContext # Null

\* setTimeout(() => {...}, 100)
StopNoteTimers(key) ==
  IF StopNoteSchedules(key)
  THEN Append(timers, [key |-> key,
                       oscillator |-> StopNoteOscillator(key),
                       oscillators |-> oscillators,
                       gainNodes |-> gainNodes])
  ELSE timers

\* gain.setValueAtTime(gain.value, now); gain.exponentialRampToValueAtTime(0.001, now + 0.1)
StopNoteGains(key) ==
  IF StopNoteSchedules(key)
  THEN [gainObjs EXCEPT ![StopNoteGainNode(key)].rampTo = ReleaseFloor]
  ELSE gainObjs

\* variant of StopNoteActiveKeys: a key that is not active clears the set
StopNoteActiveKeysCleared(keys, key) == IF key \in keys THEN keys \ {key} ELSE {}

\* variant of StopNoteActiveKeys: the key is not deleted
StopNoteActiveKeysKept(keys, key) == keys

\* setActiveKeys((prev) => { next = new Set(prev); next.delete(key); return next })
StopNoteActiveKeys(keys, key) == keys \ {key}

\* stopNote called from an event handler
StopNote(key) ==
  /\ StopNoteSchedules(key) => Len(timers) < MaxTimers
  /\ timers' = StopNoteTimers(key)
  /\ gainObjs' = StopNoteGains(key)
  /\ activeKeys' = StopNoteActiveKeys(activeKeys, key)
  /\ UNCHANGED <<mounted, audioContext, oscillators, gainNodes, oscMaps, gainMaps,
                 oscNodes, chainVars, ctrlVars, deferred>>
  /\ Render

(***************************************************************************)
(* playNote(key), lines 350-392.                                           *)
(***************************************************************************)
\* variant of PlayNoteRetriggers: the old voice is never stopped first
PlayNoteRetriggersNever(k) == FALSE

\* if (oscillators[key.key]) stopNote(key.key)
PlayNoteRetriggers(k) == MapHas(oscMaps[oscillators], k)

\* the nodes the new voice's gain node is connected to, lines 364-373
PlayNoteConnections ==
  (IF dryGainNode # Null /\ wetGainNode # Null /\ playNoteEnv.delayNode # Null
   THEN {dryGainNode, playNoteEnv.delayNode}
   ELSE {IF playNoteEnv.masterGainNode # Null THEN playNoteEnv.masterGainNode
         ELSE "destination"})
  \cup (IF playNoteEnv.reverbNode # Null THEN {playNoteEnv.reverbNode} ELSE {})

\* oscillator.type = waveform; oscillator.frequency.setValueAtTime(transposedFreq, ...)
PlayNoteOscillator(pianoKey) ==
  [key |-> pianoKey.key,
   type |-> playNoteEnv.waveform,
   baseFrequency |-> pianoKey.frequency,
   transpose |-> playNoteEnv.transpose,
   frequency |-> TransposedFreq(pianoKey.frequency, playNoteEnv.transpose),
   context |-> audioContext,
   stopped |-> FALSE]

\* gainNode.gain.setValueAtTime(0.5, ...)
PlayNoteGain == [gain |-> AttackGain, rampTo |-> AttackGain, out |-> PlayNoteConnections]

\* variant of PlayNoteReturns: playNote goes on without a context
PlayNoteReturnsNever == FALSE

\* if (!audioContext) return
PlayNoteReturns == audioContext = Null

PlayNote(pianoKey) ==
  LET k == pianoKey.key
      retrig == PlayNoteRetriggers(k)
      id == Len(oscNodes) + 1
  IN  IF PlayNoteReturns
      THEN UNCHANGED <<hookVars, heapVars, chainVars, ctrlVars, schedVars, playNoteEnv>>
      ELSE /\ Len(oscNodes) < MaxOsc
           /\ (retrig /\ StopNoteSchedules(k)) => Len(timers) < MaxTimers
           /\ timers' = IF retrig THEN StopNoteTimers(k) ELSE timers
           /\ oscNodes' = Append(oscNodes, PlayNoteOscillator(pianoKey))
           /\ gainObjs' = Append(IF retrig THEN StopNoteGains(k) ELSE gainObjs,
                                 PlayNoteGain)
           /\ oscMaps' = Append(oscMaps, MapPut(oscMaps[oscillators], k, id))
           /\ oscillators' = Len(oscMaps) + 1
           /\ gainMaps' = Append(gainMaps, MapPut(gainMaps[gainNodes], k, id))
           /\ gainNodes' = Len(gainMaps) + 1
           /\ activeKeys' =
                (IF retrig THEN StopNoteActiveKeys(activeKeys, k) ELSE activeKeys)
                  \cup {k}
           /\ UNCHANGED <<mounted, audioContext, chainVars, ctrlVars, deferred>>
           /\ Render

(***************************************************************************)
(* The release timer's callback, lines 331-339.  stop() on an oscillator   *)
(* that was already stopped throws in some implementations; the callback   *)
(* catches and logs it.  The deletes act on the map objects the callback   *)
(* captured, and no state is set, so nothing re-renders.                   *)
(***************************************************************************)
\* variant of ReleaseStop: every oscillator of the released symbol is stopped
ReleaseStopSymbol(nodes, oscillator) ==
  [i \in DOMAIN nodes |->
     IF nodes[i].key = nodes[oscillator].key
     THEN [nodes[i] EXCEPT !.stopped = TRUE] ELSE nodes[i]]

\* variant of ReleaseStop: the oscillator is left running
ReleaseStopSkipped(nodes, oscillator) == nodes

\* oscillator.stop()
ReleaseStop(nodes, oscillator) == [nodes EXCEPT ![oscillator].stopped = TRUE]

\* delete oscillators[key]; delete gainNodes[key]
ReleaseDelete(m, key) == MapDelete(m, key)

\* variant of ReleaseCatches: the exception leaves the callback
ReleaseCatchesNothing == FALSE

\* try { oscillator.stop() } catch (e) { console.warn(...) }
ReleaseCatches == TRUE

\* how the callback ends: stop() returned, it threw and the catch logged it,
\* or it threw out of the callback
ReleaseOutcome(throws) ==
  IF ~throws THEN "releaseTimer"
  ELSE IF ReleaseCatches THEN "releaseTimerWarned" ELSE "releaseTimerUncaught"

ReleaseTimerFires ==
  /\ timers # <<>>
  /\ deferred = <<>>
  /\ LET t == Head(timers)
     IN  /\ \E throws \in (IF oscNodes[t.oscillator].stopped THEN BOOLEAN ELSE {FALSE}) :
              /\ last' = Event(ReleaseOutcome(throws), t.key, FALSE)
              /\ IF ReleaseOutcome(throws) = "releaseTimerUncaught"
                 THEN UNCHANGED <<oscMaps, gainMaps>>
                 ELSE /\ oscMaps' = [oscMaps EXCEPT
                                       ![t.oscillators] = ReleaseDelete(@, t.key)]
                      /\ gainMaps' = [gainMaps EXCEPT
                                        ![t.gainNodes] = ReleaseDelete(@, t.key)]
         /\ oscNodes' = ReleaseStop(oscNodes, t.oscillator)
         /\ timers' = Tail(timers)
  /\ UNCHANGED <<hookVars, gainObjs, chainVars, ctrlVars, boundVars, deferred,
                 playNoteEnv, pressed, keyHeld>>

(***************************************************************************)
(* The mount effect, lines 250-295: it runs once, with the first render's  *)
(* values, and builds the effect chain.  createReverb's promise is handled *)
(* in a microtask, before any other event: its setReverbNode lands either  *)
(* in the render of the effect's own state updates (batched), or in a      *)
(* render of its own, which does not create playNote anew.                 *)
(***************************************************************************)
ChainGraph ==
  { <<"masterGain", "destination">>, <<"delay", "feedback">>,
    <<"feedback", "delay">>, <<"delay", "wet">>, <<"wet", "masterGain">>,
    <<"dry", "masterGain">>, <<"convolver", "masterGain">> }

MountEffect ==
  /\ ~mounted
  /\ mounted' = TRUE
  /\ audioContext' = "ctx"
  /\ masterGainNode' = "masterGain"
  /\ delayNode' = "delay"
  /\ delayFeedbackNode' = "feedback"
  /\ wetGainNode' = "wet"
  /\ dryGainNode' = "dry"
  /\ audioParams' = [delayTime |-> InitDelayTime, feedback |-> InitDelayFeedback,
                     wet |-> WetGain, dry |-> DryGain, master |-> InitMasterVolume]
  /\ graph' = ChainGraph
  /\ reverbNode' = "convolver"
  /\ \E batched \in BOOLEAN :
       playNoteEnv' = PlayNoteClosure(waveform, transpose, delayNode',
                                      IF batched THEN reverbNode' ELSE Null,
                                      masterGainNode')
  /\ last' = Event("mount", "", FALSE)
  /\ effectsDue' = FALSE
  /\ renderDue' = FALSE
  /\ UNCHANGED <<activeKeys, oscillators, gainNodes, heapVars, ctrlVars, paramChanges,
                 schedVars, pressed, keyHeld>>

\* The effects of the first render have run and the render of their state
\* updates is still to come (it is a task of its own when no event forced
\* the effects).  The refs and the audio graph are set, the keyboard
\* listeners of the first render are registered (lines 410-411), and the
\* state is still that of the first render.
EffectsFlushed ==
  /\ ~mounted
  /\ ~effectsDue
  /\ ~renderDue
  /\ renderDue' = TRUE
  /\ delayFeedbackNode' = "feedback"
  /\ wetGainNode' = "wet"
  /\ dryGainNode' = "dry"
  /\ audioParams' = [delayTime |-> InitDelayTime, feedback |-> InitDelayFeedback,
                     wet |-> WetGain, dry |-> DryGain, master |-> InitMasterVolume]
  /\ graph' = ChainGraph
  /\ last' = Event("effects", "", FALSE)
  /\ UNCHANGED <<hookVars, heapVars, delayNode, reverbNode, masterGainNode, ctrlVars,
                 paramChanges, effectsDue, schedVars, playNoteEnv, pressed, keyHeld>>

\* the keyboard listeners are registered
Listening == mounted \/ renderDue

\* An event handler starts.  A pending setTimeout(..., 0) callback runs before
\* the next event is handled (it changes nothing, so the order shows nowhere).
Idle == deferred = <<>>

\* An event handled before the mount effect has run.  Every handler sets state,
\* and React runs the pending effects of the last render before it renders
\* again: the mount effect is the next thing to run.
Early ==
  /\ Idle
  /\ ~effectsDue
  /\ ~renderDue
  /\ effectsDue' = ~mounted
  /\ UNCHANGED renderDue

(***************************************************************************)
(* Keyboard handlers, lines 394-417: registered by an effect, so only      *)
(* after the mount.                                                        *)
(***************************************************************************)
\* if (pianoKey && !activeKeys.has(key)) playNote(pianoKey)
KeyDownPlays(pianoKey, key) == pianoKey # NoKey /\ key \notin activeKeys

handleKeyDown(eventKey) ==
  LET key == ToLowerCase(eventKey)
      pianoKey == Find(key)
  IN  /\ Listening
      /\ Idle
      /\ IF KeyDownPlays(pianoKey, key)
         THEN /\ PlayNote(pianoKey)
              /\ keyHeld' = IF PlayNoteReturns THEN keyHeld ELSE keyHeld \cup {key}
         ELSE UNCHANGED <<hookVars, heapVars, chainVars, ctrlVars, schedVars,
                          playNoteEnv, keyHeld>>
      /\ last' = Event("keydown", key, FALSE)
      /\ UNCHANGED <<boundVars, pressed>>

\* if (activeKeys.has(key)) stopNote(key)
KeyUpStops(key) == key \in activeKeys

handleKeyUp(eventKey) ==
  LET key == ToLowerCase(eventKey)
  IN  /\ Listening
      /\ Idle
      /\ IF KeyUpStops(key)
         THEN StopNote(key)
         ELSE UNCHANGED <<hookVars, heapVars, chainVars, ctrlVars, schedVars,
                          playNoteEnv>>
      /\ keyHeld' = keyHeld \ {key}
      /\ last' = Event("keyup", key, FALSE)
      /\ UNCHANGED <<boundVars, pressed>>

(***************************************************************************)
(* Pointer and touch handlers, lines 419-442 and 605-609.                  *)
(***************************************************************************)
handleMouseDown(pianoKey) ==
  IF audioContext = Null
  THEN \* setAudioContext(new AudioContext()); setTimeout(() => playNote(key), 0)
       /\ audioContext' = "newContext"
       /\ deferred' = Append(deferred, [key |-> pianoKey.key, audioContext |-> audioContext])
       /\ UNCHANGED <<mounted, activeKeys, oscillators, gainNodes, heapVars, chainVars,
                      ctrlVars, timers>>
       /\ Render
  ELSE PlayNote(pianoKey)

handleMouseUp(key) == StopNote(key)

\* the playNote of the render in which audioContext was null: it returns at
\* line 352
DeferredPlayNote ==
  /\ ~Idle
  /\ Head(deferred).audioContext = Null
  /\ deferred' = Tail(deferred)
  /\ last' = Event("deferredPlayNote", Head(deferred).key, FALSE)
  /\ UNCHANGED <<hookVars, heapVars, chainVars, ctrlVars, boundVars, timers,
                 playNoteEnv, pressed, keyHeld>>

onMouseDown(k) ==
  /\ handleMouseDown(Find(k))
  /\ Early
  /\ pressed' = pressed \cup {k}
  /\ last' = Event("mousedown", k, FALSE)
  /\ UNCHANGED <<paramChanges, keyHeld>>

onMouseUp(k) ==
  /\ handleMouseUp(k)
  /\ Early
  /\ pressed' = pressed \ {k}
  /\ last' = Event("mouseup", k, k \in pressed)
  /\ UNCHANGED <<paramChanges, keyHeld>>

onMouseLeave(k) ==
  /\ handleMouseUp(k)
  /\ Early
  /\ pressed' = pressed \ {k}
  /\ last' = Event("mouseleave", k, k \in pressed)
  /\ UNCHANGED <<paramChanges, keyHeld>>

onTouchStart(k) ==
  /\ handleMouseDown(Find(k))
  /\ Early
  /\ pressed' = pressed \cup {k}
  /\ last' = Event("touchstart", k, FALSE)
  /\ UNCHANGED <<paramChanges, keyHeld>>

onTouchEnd(k) ==
  /\ handleMouseUp(k)
  /\ Early
  /\ pressed' = pressed \ {k}
  /\ last' = Event("touchend", k, k \in pressed)
  /\ UNCHANGED <<paramChanges, keyHeld>>

(***************************************************************************)
(* The control surface, lines 444-491 and 501-580.                         *)
(***************************************************************************)
\* variant of ParamChangeVoices: a control change clears the active keys
ParamChangeVoicesSilenced ==
  /\ activeKeys' = {}
  /\ UNCHANGED <<mounted, audioContext, oscillators, gainNodes, heapVars, schedVars>>

\* the handlers of the control surface call no playNote and no stopNote, and
\* set none of the voice state
ParamChangeVoices == UNCHANGED <<hookVars, heapVars, schedVars>>

ParamChange(op) ==
  /\ paramChanges < MaxParamChanges
  /\ paramChanges' = paramChanges + 1
  /\ Early
  /\ last' = Event(op, "", FALSE)
  /\ ParamChangeVoices
  /\ UNCHANGED <<pressed, keyHeld, delayNode, reverbNode, masterGainNode,
                 delayFeedbackNode, wetGainNode, dryGainNode>>
  /\ Render

onWaveformChange(value) ==
  /\ waveform' = value
  /\ UNCHANGED <<delayTime, delayFeedback, reverbLevel, masterVolume, transpose,
                 audioParams, graph>>
  /\ ParamChange("setWaveform")

onTransposeChange(value) ==
  /\ transpose' = value
  /\ UNCHANGED <<delayTime, delayFeedback, reverbLevel, masterVolume, waveform,
                 audioParams, graph>>
  /\ ParamChange("setTranspose")

updateDelayTime(value) ==
  /\ delayTime' = value
  /\ audioParams' = IF delayNode # Null
                    THEN [audioParams EXCEPT !.delayTime = value] ELSE audioParams
  /\ UNCHANGED <<delayFeedback, reverbLevel, masterVolume, transpose, waveform, graph>>
  /\ ParamChange("updateDelayTime")

updateDelayFeedback(value) ==
  /\ delayFeedback' = value
  /\ audioParams' = IF delayFeedbackNode # Null
                    THEN [audioParams EXCEPT !.feedback = value] ELSE audioParams
  /\ UNCHANGED <<delayTime, reverbLevel, masterVolume, transpose, waveform, graph>>
  /\ ParamChange("updateDelayFeedback")

\* variant of ReverbConnect: level 0 takes the reverb node off the master bus
ReverbConnectUnlessZero(g, value) ==
  IF reverbNode # Null /\ masterGainNode # Null
  THEN IF value = 0 THEN g \ {<<reverbNode, masterGainNode>>}
       ELSE g \cup {<<reverbNode, masterGainNode>>}
  ELSE g

\* if (reverbNode && masterGainNode) reverbNode.connect(masterGainNode): a
\* connection that exists already is not made twice, and value is not used
ReverbConnect(g, value) ==
  IF reverbNode # Null /\ masterGainNode # Null
  THEN g \cup {<<reverbNode, masterGainNode>>} ELSE g

updateReverbLevel(value) ==
  /\ reverbLevel' = value
  /\ graph' = ReverbConnect(graph, value)
  /\ UNCHANGED <<delayTime, delayFeedback, masterVolume, transpose, waveform,
                 audioParams>>
  /\ ParamChange("updateReverbLevel")

updateMasterVolume(value) ==
  /\ masterVolume' = value
  /\ audioParams' = IF masterGainNode # Null
                    THEN [audioParams EXCEPT !.master = value] ELSE audioParams
  /\ UNCHANGED <<delayTime, delayFeedback, reverbLevel, transpose, waveform, graph>>
  /\ ParamChange("updateMasterVolume")

\* the keys of the piano, without the control surface
Next ==
  \/ MountEffect
  \/ EffectsFlushed
  \/ \E eventKey \in EventKeys : handleKeyDown(eventKey)
  \/ \E eventKey \in EventKeys : handleKeyUp(eventKey)
  \/ \E k \in PointerKeys : onMouseDown(k)
  \/ \E k \in PointerKeys : onMouseUp(k)
  \/ \E k \in PointerKeys : onMouseLeave(k)
  \/ \E k \in PointerKeys : onTouchStart(k)
  \/ \E k \in PointerKeys : onTouchEnd(k)
  \/ DeferredPlayNote
  \/ ReleaseTimerFires

Spec == Init /\ [][Next]_vars

\* the keys with the waveform and transpose controls
NextControls ==
  \/ Next
  \/ \E value \in WaveformInputs : onWaveformChange(value)
  \/ \E value \in TransposeInputs : onTransposeChange(value)

SpecControls == Init /\ [][NextControls]_vars

\* the keys with the effect chain's sliders
NextChain ==
  \/ Next
  \/ \E value \in DelayInputs : updateDelayTime(value)
  \/ \E value \in FeedbackInputs : updateDelayFeedback(value)
  \/ \E value \in ReverbInputs : updateReverbLevel(value)
  \/ \E value \in MasterInputs : updateMasterVolume(value)

SpecChain == Init /\ [][NextChain]_vars


(***************************************************************************)
(* The voices of a state.  An oscillator is started when it is created     *)
(* (line 385) and runs until stop() (line 333).  The voice table is the    *)
(* map the oscillators state refers to.  A symbol is Sounding when its     *)
(* table entry runs and no release timer is pending for it, Releasing when *)
(* its table entry runs and a release timer is pending for it.             *)
(***************************************************************************)
RunningFor(nodes, s) == { i \in 1..Len(nodes) : nodes[i].key = s /\ ~nodes[i].stopped }
Running(nodes) == { i \in 1..Len(nodes) : ~nodes[i].stopped }
PendingFor(tms, oscillator) == { j \in 1..Len(tms) : tms[j].oscillator = oscillator }
SoundingIn(table, nodes, tms, s) ==
  /\ MapHas(table, s)
  /\ ~nodes[table[s]].stopped
  /\ PendingFor(tms, table[s]) = {}
ReleasingIn(table, nodes, tms, s) ==
  /\ MapHas(table, s)
  /\ ~nodes[table[s]].stopped
  /\ PendingFor(tms, table[s]) # {}
VoiceTable == oscMaps[oscillators]
Sounding(s) == SoundingIn(VoiceTable, oscNodes, timers, s)
Releasing(s) == ReleasingIn(VoiceTable, oscNodes, timers, s)
SoundingAfter(s) == SoundingIn(oscMaps'[oscillators'], oscNodes', timers', s)
ReleasingAfter(s) == ReleasingIn(oscMaps'[oscillators'], oscNodes', timers', s)
\* the step created an oscillator
Created == Len(oscNodes') = Len(oscNodes) + 1
NewOscillator == oscNodes'[Len(oscNodes')]
PointerReleases == {"mouseup", "mouseleave", "touchend"}
PointerPresses == {"mousedown", "touchstart"}

(***************************************************************************)
(* C1: in every reachable state, for every symbol, at most one oscillator  *)
(* of that symbol is started and not yet stopped.  The code does not keep  *)
(* this: a retrigger starts the new oscillator while the old one runs on   *)
(* until its release timer fires.                                          *)
(***************************************************************************)
C1_AtMostOneRunningPerSymbol ==
  \A s \in TableKeys : Cardinality(RunningFor(oscNodes, s)) <= 1

(***************************************************************************)
(* C2: when a note-on for S creates its oscillator, no release timer for S *)
(* that was pending before the note-on is still pending after it.  The     *)
(* code never cancels a timer.                                             *)
(***************************************************************************)
C2_RetriggerCancelsPendingRelease ==
  [][Created =>
       \A i \in 1..Len(timers) :
         timers[i].key = NewOscillator.key =>
           \A j \in 1..Len(timers') : timers'[j] # timers[i]]_vars

(***************************************************************************)
(* C3: a note-off event (keyup, pointer up, pointer leave, touch end) for  *)
(* a Sounding symbol schedules a release timer for the Sounding            *)
(* oscillator; a release timer that fires leaves its oscillator stopped;   *)
(* and every running oscillator is either the table entry of an active key *)
(* or has a release timer pending.                                         *)
(***************************************************************************)
C3_NoteOffThenTimerStops ==
  [][/\ \A s \in TableKeys :
          (Sounding(s) /\ last'.key = s /\ last'.op \in PointerReleases \cup {"keyup"})
            => PendingFor(timers', VoiceTable[s]) # {}
     /\ (timers # <<>> /\ last'.op \in {"releaseTimer", "releaseTimerWarned"})
          => oscNodes'[Head(timers).oscillator].stopped
     /\ \A i \in Running(oscNodes') :
          \/ PendingFor(timers', i) # {}
          \/ /\ oscNodes'[i].key \in activeKeys'
             /\ MapHas(oscMaps'[oscillators'], oscNodes'[i].key)
             /\ oscMaps'[oscillators'][oscNodes'[i].key] = i]_vars

\* a release timer has fired for an oscillator that a note-off released while
\* another symbol was active, and the oscillator is stopped
C3_Witness ==
  /\ last.op = "releaseTimer"
  /\ \E i \in 1..Len(oscNodes) :
       /\ oscNodes[i].key = last.key
       /\ oscNodes[i].stopped
       /\ PendingFor(timers, i) = {}
  /\ activeKeys # {}

(***************************************************************************)
(* C4: while a key is held (its keydown issued a note-on and no keyup for  *)
(* it came since), a further keydown for it creates no oscillator, and     *)
(* the keyup for it issues a note-off.  The code does not keep this: a     *)
(* pointer leave on the key's element clears the key from activeKeys.      *)
(***************************************************************************)
C4_HeldKeyDebounced ==
  [][\A s \in keyHeld :
       /\ (last'.op = "keydown" /\ last'.key = s) => ~Created
       /\ (last'.op = "keyup" /\ last'.key = s) => s \in activeKeys]_vars

(***************************************************************************)
(* C5: the oscillator a note-on creates has the waveform and the transpose *)
(* that the controls hold when the note-on is issued.  The code does not   *)
(* keep this: playNote is memoised without waveform and transpose among    *)
(* its dependencies.                                                       *)
(***************************************************************************)
C5_NoteOnUsesCurrentControls ==
  [][Created =>
       /\ NewOscillator.type = waveform
       /\ NewOscillator.transpose = transpose]_vars

(***************************************************************************)
(* C6: in every reachable state the number of running oscillators equals   *)
(* the number of symbols with an entry in the voice table.  The code does  *)
(* not keep this.                                                          *)
(***************************************************************************)
C6_RunningEqualsTableEntries ==
  Cardinality(Running(oscNodes)) = Cardinality(DOMAIN VoiceTable)

(***************************************************************************)
(* C7: a pointer or touch press on a symbol that is Sounding (the only     *)
(* events that reach playNote then) creates a new oscillator for the       *)
(* symbol, which becomes its table entry, keeps the symbol in the active   *)
(* set, and schedules the release of the oscillator that was Sounding.     *)
(***************************************************************************)
C7_RetriggerNeverIgnored ==
  [][\A s \in TableKeys :
       (Sounding(s) /\ last'.op \in PointerPresses /\ last'.key = s) =>
         /\ Created
         /\ NewOscillator.key = s
         /\ ~NewOscillator.stopped
         /\ oscMaps'[oscillators'][s] = Len(oscNodes')
         /\ gainMaps'[gainNodes'][s] = Len(gainObjs')
         /\ s \in activeKeys'
         /\ PendingFor(timers', VoiceTable[s]) # {}
         /\ gainObjs'[gainMaps[gainNodes][s]].rampTo = ReleaseFloor]_vars

\* a press has retriggered a symbol: its table entry is the newest oscillator,
\* Sounding, and an older oscillator of the symbol is being released
C7_Witness ==
  /\ last.op \in PointerPresses
  /\ Sounding(last.key)
  /\ VoiceTable[last.key] = Len(oscNodes)
  /\ last.key \in activeKeys
  /\ \E i \in RunningFor(oscNodes, last.key) :
       i < Len(oscNodes) /\ PendingFor(timers, i) # {}

(***************************************************************************)
(* C8: a pointer leave on a key with an outstanding press leaves the key   *)
(* out of the active set and not Sounding; a voice that was Sounding is    *)
(* Releasing.                                                              *)
(***************************************************************************)
C8_LeaveWhilePressedReleases ==
  [][\A s \in pressed :
       (last'.op = "mouseleave" /\ last'.key = s) =>
         /\ s \notin activeKeys'
         /\ ~SoundingAfter(s)
         /\ Sounding(s) => ReleasingAfter(s)]_vars

\* the pointer has left a pressed key whose voice is now Releasing
C8_Witness ==
  /\ last.op = "mouseleave"
  /\ last.outstanding
  /\ Releasing(last.key)
  /\ Cardinality(PendingFor(timers, VoiceTable[last.key])) = 1
  /\ last.key \notin activeKeys

(***************************************************************************)
(* C9: a pointer up, pointer leave or touch end on a key with no           *)
(* outstanding press schedules no release and leaves the active set alone. *)
(* The code does not keep this: handleMouseUp calls stopNote whatever the  *)
(* state of the pointer.                                                   *)
(***************************************************************************)
C9_ReleaseOnlyForOutstandingPress ==
  [][(last'.op \in PointerReleases /\ last'.key \notin pressed) =>
       /\ timers' = timers
       /\ activeKeys' = activeKeys]_vars

(***************************************************************************)
(* C10: a keydown or keyup whose lower-cased key is not in the Pitch Table *)
(* changes nothing: not the voice table, the envelope table, the active    *)
(* key set, the timers, the effect chain or the controls.                  *)
(***************************************************************************)
C10_UnknownKeyIsNoOp ==
  [][(last'.op \in {"keydown", "keyup"} /\ last'.key \notin TableKeys) =>
       UNCHANGED <<hookVars, heapVars, chainVars, ctrlVars, schedVars, playNoteEnv>>]_vars

\* an unknown key has been handled while one voice is Sounding and another
\* is being released
C10_Witness ==
  /\ last.op \in {"keydown", "keyup"}
  /\ last.key \notin TableKeys
  /\ activeKeys # {}
  /\ timers # <<>>

\* the note-off events: stopNote runs on every pointer up, pointer leave and
\* touch end, and on the keyup of an active key
NoteOffIssued ==
  \/ last'.op \in PointerReleases
  \/ last'.op = "keyup" /\ last'.key \in activeKeys

(***************************************************************************)
(* C11: a note-off for a symbol with no entry in the voice table schedules *)
(* no release timer, stops no oscillator, ramps no envelope, and leaves    *)
(* the voice table, the envelope table and the active key set with the     *)
(* same contents.                                                          *)
(***************************************************************************)
C11_NoteOffWithoutVoiceIsNoOp ==
  [][(NoteOffIssued /\ ~MapHas(VoiceTable, last'.key)) =>
       /\ timers' = timers
       /\ oscNodes' = oscNodes
       /\ gainObjs' = gainObjs
       /\ oscMaps'[oscillators'] = VoiceTable
       /\ gainMaps'[gainNodes'] = gainMaps[gainNodes]
       /\ activeKeys' = activeKeys]_vars

\* a pointer release with no press outstanding has been handled for a symbol
\* without a voice, while another symbol is active
C11_Witness ==
  /\ last.op \in PointerReleases
  /\ ~last.outstanding
  /\ audioContext # Null
  /\ ~MapHas(VoiceTable, last.key)
  /\ activeKeys # {}
  /\ Running(oscNodes) # {}

ChainSetters == {"updateDelayTime", "updateDelayFeedback", "updateReverbLevel",
                 "updateMasterVolume"}

(***************************************************************************)
(* C12: the setters of the delay time, the feedback, the reverb mix and    *)
(* the master gain create, stop and remove no voice: the oscillators, the  *)
(* envelopes, the voice table, the active key set and the pending release  *)
(* timers are unchanged, and a Sounding symbol stays Sounding.             *)
(***************************************************************************)
C12_SettersLeaveVoicesAlone ==
  [][last'.op \in ChainSetters =>
       /\ UNCHANGED <<oscNodes, gainObjs, oscMaps, gainMaps, oscillators, gainNodes,
                      activeKeys, timers, deferred>>
       /\ \A s \in TableKeys : Sounding(s) => SoundingAfter(s)]_vars

\* the master gain has been set to 0 while one symbol is Sounding and active
\* and another voice is being released
C12_Witness ==
  /\ last.op = "updateMasterVolume"
  /\ masterGainNode # Null
  /\ audioParams.master = 0
  /\ \E s \in activeKeys : Sounding(s)
  /\ timers # <<>>

(***************************************************************************)
(* C13: a pointer or touch press that finds no audio context creates one,  *)
(* and the note-on it defers then runs against it: once the deferred       *)
(* playNote has run, the context is set and the symbol is Sounding.  The   *)
(* code does not keep this: the deferred call is the playNote of the       *)
(* render in which audioContext was null, and returns at once.             *)
(***************************************************************************)
C13_LazyInitThenNoteOn ==
  [][last'.op = "deferredPlayNote" =>
       /\ audioContext' # Null
       /\ SoundingAfter(last'.key)]_vars

(***************************************************************************)
(* C14: while the audio context is absent, a keydown and every note-off    *)
(* event (keyup, pointer up, pointer leave, touch end) create no           *)
(* oscillator and no envelope, schedule no release timer, and leave the    *)
(* voice table, the envelope table and the active key set with the same    *)
(* contents.                                                               *)
(***************************************************************************)
C14_NoContextNoOps ==
  [][(audioContext = Null /\ last'.op \in PointerReleases \cup {"keydown", "keyup"}) =>
       /\ oscNodes' = oscNodes
       /\ gainObjs' = gainObjs
       /\ timers' = timers
       /\ oscMaps'[oscillators'] = VoiceTable
       /\ gainMaps'[gainNodes'] = gainMaps[gainNodes]
       /\ activeKeys' = activeKeys]_vars

\* a keydown for a symbol of the Pitch Table has been handled by the listener
\* of the first render, whose playNote has no audio context
C14_Witness ==
  /\ last.op = "keydown"
  /\ last.key \in TableKeys
  /\ audioContext = Null
  /\ oscNodes = <<>>
  /\ activeKeys = {}

(***************************************************************************)
(* The pitch of a voice, for every symbol of the Pitch Table and for the   *)
(* transposes of an octave down, none, and an octave up.  The component    *)
(* is mounted, the transpose control holds one of these values and         *)
(* playNote has been created with it; every key of the table is played.    *)
(***************************************************************************)
PitchTransposes == {0 - 12, 0, 12}

InitPitch ==
  /\ mounted = TRUE
  /\ audioContext = "ctx"
  /\ activeKeys = {}
  /\ oscMaps = << <<>> >>
  /\ gainMaps = << <<>> >>
  /\ oscillators = 1
  /\ gainNodes = 1
  /\ oscNodes = <<>>
  /\ gainObjs = <<>>
  /\ delayNode = "delay"
  /\ reverbNode = "convolver"
  /\ masterGainNode = "masterGain"
  /\ delayFeedbackNode = "feedback"
  /\ wetGainNode = "wet"
  /\ dryGainNode = "dry"
  /\ delayTime = InitDelayTime
  /\ delayFeedback = InitDelayFeedback
  /\ reverbLevel = InitReverbLevel
  /\ masterVolume = InitMasterVolume
  /\ transpose \in PitchTransposes
  /\ waveform = "sine"
  /\ audioParams = [delayTime |-> InitDelayTime, feedback |-> InitDelayFeedback,
                    wet |-> WetGain, dry |-> DryGain, master |-> InitMasterVolume]
  /\ graph = ChainGraph
  /\ playNoteEnv = PlayNoteClosure(waveform, transpose, delayNode, reverbNode,
                                   masterGainNode)
  /\ timers = <<>>
  /\ deferred = <<>>
  /\ paramChanges = 0
  /\ effectsDue = FALSE
  /\ renderDue = FALSE
  /\ pressed = {}
  /\ keyHeld = {}
  /\ last = Event("mount", "", FALSE)

NextPitch == \E eventKey \in TableKeys : handleKeyDown(eventKey)

SpecPitch == InitPitch /\ [][NextPitch]_vars

(***************************************************************************)
(* C15: for every symbol of the Pitch Table, the oscillator of a voice     *)
(* created with transpose +12 has twice the symbol's base frequency, with  *)
(* transpose 0 the base frequency, and with transpose -12 half of it.      *)
(***************************************************************************)
C15_OctaveTransposeExact ==
  \A i \in 1..Len(oscNodes) :
    LET o == oscNodes[i]
    IN  /\ o.baseFrequency = Find(o.key).frequency
        /\ o.transpose = 12 => o.frequency = 2 * o.baseFrequency
        /\ o.transpose = 0 => o.frequency = o.baseFrequency
        /\ o.transpose = 0 - 12 => 2 * o.frequency = o.baseFrequency

\* the first and the last symbol of the table have been played an octave down:
\* 130.815 Hz and 659.25 Hz
C15_Witness ==
  /\ \E i \in 1..Len(oscNodes) :
       /\ oscNodes[i].key = "z"
       /\ oscNodes[i].transpose = 0 - 12
       /\ oscNodes[i].frequency = 26163
  /\ \E i \in 1..Len(oscNodes) :
       /\ oscNodes[i].key = "/"
       /\ oscNodes[i].transpose = 0 - 12
       /\ oscNodes[i].frequency = 65925

(***************************************************************************)
(* C16: in every reachable state the voice table holds no entry for a      *)
(* stopped oscillator: once the release timer of a voice has fired, the    *)
(* oscillators and gainNodes maps hold no entry for it.  The code does not *)
(* keep this: the timer deletes from the map objects that stopNote         *)
(* captured, and a note-on in the release window has copied the entry into *)
(* new ones.                                                               *)
(***************************************************************************)
C16_NoStoppedEntryInTable ==
  /\ \A s \in DOMAIN VoiceTable : ~oscNodes[VoiceTable[s]].stopped
  /\ \A s \in DOMAIN gainMaps[gainNodes] : ~oscNodes[gainMaps[gainNodes][s]].stopped

ReleaseTimerOps == {"releaseTimer", "releaseTimerWarned", "releaseTimerUncaught"}

(***************************************************************************)
(* C17: a release timer that fires stops and removes only the oscillator   *)
(* that was the symbol's table entry when its note-off was issued.  Every  *)
(* other oscillator keeps running if it ran, no map loses an entry for     *)
(* another oscillator, and no envelope changes; when the symbol has a      *)
(* newer voice that is Sounding, its envelope is at the attack level.      *)
(***************************************************************************)
C17_TimerAffectsOnlyItsVoice ==
  [][(timers # <<>> /\ last'.op \in ReleaseTimerOps) =>
       LET t == Head(timers)
       IN  /\ \A i \in 1..Len(oscNodes) :
                 i # t.oscillator => oscNodes'[i] = oscNodes[i]
           /\ \A m \in 1..Len(oscMaps) : \A s \in DOMAIN oscMaps[m] :
                 oscMaps[m][s] # t.oscillator =>
                   (MapHas(oscMaps'[m], s) /\ oscMaps'[m][s] = oscMaps[m][s])
           /\ \A m \in 1..Len(gainMaps) : \A s \in DOMAIN gainMaps[m] :
                 gainMaps[m][s] # t.oscillator =>
                   (MapHas(gainMaps'[m], s) /\ gainMaps'[m][s] = gainMaps[m][s])
           /\ gainObjs' = gainObjs
           /\ UNCHANGED <<oscillators, gainNodes, activeKeys>>
           /\ (MapHas(VoiceTable, t.key) /\ VoiceTable[t.key] # t.oscillator
                 /\ Sounding(t.key)) =>
                /\ SoundingAfter(t.key)
                /\ gainObjs'[gainMaps'[gainNodes'][t.key]].gain = AttackGain
                /\ gainObjs'[gainMaps'[gainNodes'][t.key]].rampTo = AttackGain]_vars

\* the release timer of an old voice has fired after a later note-on for the
\* symbol: the old oscillator is stopped, the newer one is the table entry,
\* Sounding, at the attack level
C17_Witness ==
  /\ last.op \in ReleaseTimerOps
  /\ Sounding(last.key)
  /\ last.key \in activeKeys
  /\ gainObjs[gainMaps[gainNodes][last.key]].rampTo = AttackGain
  /\ \E i \in 1..Len(oscNodes) :
       /\ oscNodes[i].key = last.key
       /\ oscNodes[i].stopped
       /\ i < VoiceTable[last.key]

(***************************************************************************)
(* C18: a release timer that fires for an oscillator that is already       *)
(* stopped ends inside its callback, whether or not stop() throws: no      *)
(* error leaves the callback, and the callback deletes the symbol's        *)
(* entries from the two maps it holds.                                     *)
(***************************************************************************)
C18_StopOnStoppedIsAbsorbed ==
  [][(timers # <<>> /\ last'.op \in ReleaseTimerOps
        /\ oscNodes[Head(timers).oscillator].stopped) =>
       LET t == Head(timers)
       IN  /\ last'.op # "releaseTimerUncaught"
           /\ ~MapHas(oscMaps'[t.oscillators], t.key)
           /\ ~MapHas(gainMaps'[t.gainNodes], t.key)
           /\ oscNodes'[t.oscillator].stopped
           /\ timers' = Tail(timers)]_vars

\* stop() has thrown for an oscillator that an earlier timer had stopped, the
\* callback has logged it, and the voice table has no entry for the symbol
C18_Witness ==
  /\ last.op = "releaseTimerWarned"
  /\ ~MapHas(VoiceTable, last.key)
  /\ ~MapHas(gainMaps[gainNodes], last.key)
  /\ \E i \in 1..Len(oscNodes) : oscNodes[i].key = last.key /\ oscNodes[i].stopped
  /\ RunningFor(oscNodes, last.key) = {}

\* the events that are for one symbol: the note-on and note-off events and
\* the firing of a release timer
SymbolOps == PointerPresses \cup PointerReleases \cup ReleaseTimerOps
               \cup {"keydown", "keyup", "deferredPlayNote"}

(***************************************************************************)
(* C19: an event for a symbol S (note-on, note-off, or the firing of a     *)
(* release timer of S) leaves every other symbol T alone: T's oscillators  *)
(* and envelopes, T's entry in the voice table and in the envelope table,  *)
(* T's pending release timers and T's membership of the active key set     *)
(* are unchanged.                                                          *)
(***************************************************************************)
C19_OtherSymbolsUntouched ==
  [][last'.op \in SymbolOps =>
       \A T \in TableKeys \ {last'.key} :
         /\ (T \in activeKeys') = (T \in activeKeys)
         /\ MapHas(oscMaps'[oscillators'], T) = MapHas(VoiceTable, T)
         /\ MapHas(VoiceTable, T) => oscMaps'[oscillators'][T] = VoiceTable[T]
         /\ MapHas(gainMaps'[gainNodes'], T) = MapHas(gainMaps[gainNodes], T)
         /\ MapHas(gainMaps[gainNodes], T) =>
              gainMaps'[gainNodes'][T] = gainMaps[gainNodes][T]
         /\ \A i \in 1..Len(oscNodes) :
              oscNodes[i].key = T =>
                (oscNodes'[i] = oscNodes[i] /\ gainObjs'[i] = gainObjs[i])
         /\ SelectSeq(timers', LAMBDA t : t.key = T)
              = SelectSeq(timers, LAMBDA t : t.key = T)]_vars

\* the release timer of z has fired and stopped its oscillator while s is
\* active and Sounding
C19_Witness ==
  /\ last.op \in ReleaseTimerOps
  /\ last.key = "z"
  /\ "s" \in activeKeys
  /\ Sounding("s")
  /\ \E i \in 1..Len(oscNodes) : oscNodes[i].key = "z" /\ oscNodes[i].stopped

(***************************************************************************)
(* C20: in every reachable state the active key set is the set of the      *)
(* Sounding symbols: a symbol in activeKeys has a table entry whose        *)
(* oscillator runs and has no release pending, and a symbol with such an   *)
(* entry is in activeKeys.                                                 *)
(***************************************************************************)
C20_ActiveKeysAreSounding ==
  activeKeys = { s \in TableKeys : Sounding(s) }

\* one symbol is active and Sounding while another, released, is still in the
\* voice table with its oscillator running, and is not active
C20_Witness ==
  /\ "s" \in activeKeys
  /\ Sounding("s")
  /\ Releasing("z")
  /\ "z" \notin activeKeys

(***************************************************************************)
(* C21: updateReverbLevel changes the stored reverbLevel and nothing else  *)
(* of the effect chain: the master, dry, wet and feedback gains, the delay *)
(* time, the connections of the graph, the chain's nodes, the envelopes of *)
(* the voices and the other controls are unchanged, for the level 0 and    *)
(* for the level 1.                                                        *)
(***************************************************************************)
C21_ReverbLevelOnlyStored ==
  [][last'.op = "updateReverbLevel" =>
       /\ reverbLevel' \in ReverbInputs
       /\ audioParams' = audioParams
       /\ graph' = graph
       /\ gainObjs' = gainObjs
       /\ UNCHANGED <<delayNode, reverbNode, masterGainNode, delayFeedbackNode,
                      wetGainNode, dryGainNode>>
       /\ UNCHANGED <<delayTime, delayFeedback, masterVolume, transpose, waveform>>]_vars

\* the reverb level has been set to 0 on the mounted chain while a voice that
\* feeds the reverb node is Sounding: the node is still on the master bus and
\* the wet gain is the one of the mount
C21_Witness ==
  /\ last.op = "updateReverbLevel"
  /\ reverbLevel = 0
  /\ reverbNode # Null
  /\ <<reverbNode, masterGainNode>> \in graph
  /\ graph = ChainGraph
  /\ audioParams.wet = WetGain
  /\ \E s \in activeKeys :
       Sounding(s) /\ reverbNode \in gainObjs[gainMaps[gainNodes][s]].out

====
